---- MODULE Spec2Model ----
(***************************************************************************)
(* Model of the company-valuation engine of src/main.py: the four          *)
(* single-method estimators (dcf_valuation, pe_valuation, pbv_valuation,   *)
(* ev_ebitda_valuation), the comparable-companies estimator                *)
(* (market_multiples_valuation) and the aggregator (perform_valuation).    *)
(*                                                                         *)
(* Numbers.  Python floats are modelled by exact rationals [n, d] in       *)
(* lowest terms with d > 0.  d = 0 encodes the IEEE non-finite values a    *)
(* numpy scalar yields on a division by zero: n = 1 is +inf, n = -1 is     *)
(* -inf, n = 0 is nan.  Whether the statement values are numpy scalars     *)
(* (x / 0 gives inf or nan) or plain Python numbers (x / 0 raises          *)
(* ZeroDivisionError) depends on the frames the data accessor returns, so  *)
(* it is an input: the flag numpy_scalars.                                 *)
(*                                                                         *)
(* Datasets.  A statement (cash_flow, income_stmt, balance_sheet) is a     *)
(* function from the line items present in its index to the value of the   *)
(* latest period (.iloc[-1]); info is the profile dict, a function from    *)
(* the keys present to their values.  None is the record NoneData.         *)
(***************************************************************************)
EXTENDS Integers, Sequences, FiniteSets, TLC

VARIABLES
    numpy_scalars,      \* TRUE: statement values are numpy float64 scalars
    pc,                 \* position of the running call
    financial_data,     \* the dataset the call works on, or NoneData
    target_companies,   \* the peers: a sequence of peer profiles (info dicts)
    call,               \* SpecMethods: the method call made and its result
    current_price,      \* perform_valuation: the current price found
    valuations,         \* perform_valuation: the report's method entries
    succeeded,          \* perform_valuation: methods that returned a value
    started,            \* perform_valuation: methods invoked so far
    fetches,            \* perform_valuation: results of the subject's fetches
    comparable_data,    \* market_multiples_valuation: fetched peers (or NoneData)
    mm_result,          \* market_multiples_valuation: its return value
    diff,               \* display_valuation_results: deviation from the price
    status,             \* display_valuation_results: classification per entry
    colors              \* display_valuation_results: bar colour per entry

vars == <<numpy_scalars, pc, financial_data, target_companies, call,
          current_price, valuations, succeeded, started, fetches,
          comparable_data, mm_result, diff, status, colors>>

(***************************************************************************)
(* Bounds of the model.                                                    *)
(***************************************************************************)
MaxYears == 2       \* projection years tried besides the default
MaxPeers == 2       \* peers passed to a single method call
MaxTargets == 1     \* peers passed to perform_valuation

(***************************************************************************)
(* Rational arithmetic with IEEE non-finite values.                        *)
(***************************************************************************)
Abs(x) == IF x < 0 THEN -x ELSE x

Sign(x) == IF x < 0 THEN -1 ELSE IF x > 0 THEN 1 ELSE 0

RECURSIVE GCD(_, _)
GCD(a, b) == IF b = 0 THEN a ELSE GCD(b, a % b)

Rat(n, d) ==
    LET g == GCD(Abs(n), Abs(d))
        s == IF d < 0 THEN -1 ELSE 1
    IN  [n |-> s * (n \div g), d |-> s * (d \div g)]

ToRat(i) == [n |-> i, d |-> 1]

NaN == [n |-> 0, d |-> 0]

PosInf == [n |-> 1, d |-> 0]

NegInf == [n |-> -1, d |-> 0]

IsFinite(x) == x.d # 0

IsZero(x) == x.d # 0 /\ x.n = 0

\* bool(x) of a float: only 0.0 is false (inf and nan are true)
Truthy(x) == ~IsZero(x)

RNeg(x) == [n |-> -x.n, d |-> x.d]

RAbs(x) == [n |-> Abs(x.n), d |-> x.d]

RAdd(x, y) ==
    IF IsFinite(x) /\ IsFinite(y)
    THEN LET g == GCD(x.d, y.d)
         IN  Rat(x.n * (y.d \div g) + y.n * (x.d \div g), (x.d \div g) * y.d)
    ELSE IF x = NaN \/ y = NaN THEN NaN
    ELSE IF ~IsFinite(x) /\ ~IsFinite(y) THEN (IF x = y THEN x ELSE NaN)
    ELSE IF ~IsFinite(x) THEN x ELSE y

RSub(x, y) == RAdd(x, RNeg(y))

RMul(x, y) ==
    IF IsFinite(x) /\ IsFinite(y)
    THEN LET g1 == GCD(Abs(x.n), y.d)
             g2 == GCD(Abs(y.n), x.d)
         IN  Rat((x.n \div g1) * (y.n \div g2), (x.d \div g2) * (y.d \div g1))
    ELSE [n |-> Sign(x.n) * Sign(y.n), d |-> 0]

\* x / y where a zero divisor does not raise (numpy): x/0 is +-inf or nan
RDiv(x, y) ==
    IF IsZero(y) THEN [n |-> Sign(x.n), d |-> 0]
    ELSE IF ~IsFinite(y) THEN (IF IsFinite(x) /\ y # NaN THEN ToRat(0) ELSE NaN)
    ELSE RMul(x, [n |-> Sign(y.n) * y.d, d |-> Abs(y.n)])

RECURSIVE RPow(_, _)
RPow(x, k) == IF k = 0 THEN ToRat(1) ELSE RMul(x, RPow(x, k - 1))

\* x > y on floats: every comparison with nan is false
RGt(x, y) ==
    IF IsFinite(x) /\ IsFinite(y) THEN x.n * y.d > y.n * x.d
    ELSE x # NaN /\ y # NaN /\ x # y /\ (x = PosInf \/ y = NegInf)

RECURSIVE RSum(_)
RSum(s) == IF s = <<>> THEN ToRat(0) ELSE RAdd(Head(s), RSum(Tail(s)))

\* sum(values) / len(values), len(values) > 0
Mean(s) == RDiv(RSum(s), ToRat(Len(s)))

(***************************************************************************)
(* Datasets.                                                               *)
(***************************************************************************)
Empty == [k \in {} |-> 0]

NoneData == [ok |-> FALSE]

Dataset(cf, inc, bs, info, close) ==
    [ok |-> TRUE, cash_flow |-> cf, income_stmt |-> inc, balance_sheet |-> bs,
     info |-> info, hist |-> close]

\* 'X' in frame.index
Has(stmt, item) == item \in DOMAIN stmt

\* frame.loc['X'].iloc[-1]; raises KeyError unless Has(stmt, item)
Latest(stmt, item) == ToRat(stmt[item])

\* info.get(key, default)
Get(info, key, default) == IF key \in DOMAIN info THEN info[key] ELSE default

\* info.get(key) is None or 0: the test `not x` of the code
Falsy(info, key) == key \notin DOMAIN info \/ info[key] = 0

SharesOutstanding(fd) == Get(fd.info, "sharesOutstanding", 1)

(***************************************************************************)
(* Line-item resolution shared by the methods.                             *)
(***************************************************************************)
\* the first try block of dcf_valuation raises and so does its handler
FreeCashFlowRaises(fd) == ~Has(fd.cash_flow, "Operating Cash Flow")

FreeCashFlow(fd) ==
    IF Has(fd.cash_flow, "Operating Cash Flow")
       /\ Has(fd.cash_flow, "Capital Expenditure")
    THEN RSub(Latest(fd.cash_flow, "Operating Cash Flow"),
              RAbs(Latest(fd.cash_flow, "Capital Expenditure")))
    ELSE Latest(fd.cash_flow, "Operating Cash Flow")

\* one try block reads both items; its handler replaces both
CashAndDebt(fd) ==
    LET bs == fd.balance_sheet
    IN  IF Has(bs, "Cash And Cash Equivalents") /\ Has(bs, "Total Debt")
        THEN [cash |-> Latest(bs, "Cash And Cash Equivalents"),
              debt |-> Latest(bs, "Total Debt")]
        ELSE [cash |-> IF Has(bs, "Cash And Short Term Investments")
                       THEN Latest(bs, "Cash And Short Term Investments")
                       ELSE ToRat(0),
              debt |-> IF Has(bs, "Long Term Debt")
                       THEN Latest(bs, "Long Term Debt")
                       ELSE ToRat(0)]

EquityValue(fd, enterprise_value) ==
    RSub(RAdd(enterprise_value, CashAndDebt(fd).cash), CashAndDebt(fd).debt)

\* the EBIT branch completes: EBIT is there and so is one depreciation source
EbitBranch(fd) ==
    /\ Has(fd.income_stmt, "EBIT")
    /\ \/ Has(fd.income_stmt, "Depreciation And Amortization")
       \/ Has(fd.cash_flow, "Depreciation")

EbitdaRaises(fd) ==
    ~EbitBranch(fd) /\ ~Has(fd.income_stmt, "Income Before Tax")

\* mutant: the interest expense is added with its sign
EbitdaSignedInterest(fd) ==
    IF EbitBranch(fd)
    THEN RAdd(Latest(fd.income_stmt, "EBIT"),
              IF Has(fd.income_stmt, "Depreciation And Amortization")
              THEN Latest(fd.income_stmt, "Depreciation And Amortization")
              ELSE Latest(fd.cash_flow, "Depreciation"))
    ELSE RAdd(Latest(fd.income_stmt, "Income Before Tax"),
              IF Has(fd.income_stmt, "Interest Expense")
              THEN Latest(fd.income_stmt, "Interest Expense")
              ELSE ToRat(0))

Ebitda(fd) ==
    IF EbitBranch(fd)
    THEN RAdd(Latest(fd.income_stmt, "EBIT"),
              IF Has(fd.income_stmt, "Depreciation And Amortization")
              THEN Latest(fd.income_stmt, "Depreciation And Amortization")
              ELSE Latest(fd.cash_flow, "Depreciation"))
    ELSE RAdd(Latest(fd.income_stmt, "Income Before Tax"),
              IF Has(fd.income_stmt, "Interest Expense")
              THEN RAbs(Latest(fd.income_stmt, "Interest Expense"))
              ELSE ToRat(0))

\* x / shares_outstanding raises on plain Python numbers when shares are 0
SharesRaise(fd, np) == ~np /\ SharesOutstanding(fd) = 0

PerShare(fd, x) == RDiv(x, ToRat(SharesOutstanding(fd)))

EpsRaises(fd, np) ==
    /\ Falsy(fd.info, "trailingEPS")
    /\ ~Has(fd.income_stmt, "Net Income") \/ SharesRaise(fd, np)

Eps(fd) ==
    IF ~Falsy(fd.info, "trailingEPS") THEN ToRat(fd.info["trailingEPS"])
    ELSE PerShare(fd, Latest(fd.income_stmt, "Net Income"))

BvpsRaises(fd, np) ==
    /\ Falsy(fd.info, "bookValue")
    /\ ~Has(fd.balance_sheet, "Total Stockholder Equity") \/ SharesRaise(fd, np)

Bvps(fd) ==
    IF ~Falsy(fd.info, "bookValue") THEN ToRat(fd.info["bookValue"])
    ELSE PerShare(fd, Latest(fd.balance_sheet, "Total Stockholder Equity"))

(***************************************************************************)
(* Peer multiples.  A lookup of one peer's profile either fails (raises)   *)
(* or yields its info dict.                                                *)
(***************************************************************************)
FailedLookup == [fails |-> TRUE, info |-> Empty]

Found(info) == [fails |-> FALSE, info |-> info]

\* mutant: the multiple is not tested for being positive
UsableAnySign(lookup, key) ==
    ~lookup.fails /\ key \in DOMAIN lookup.info /\ lookup.info[key] # 0

\* `if ratio and ratio > 0` on a lookup that did not raise
Usable(lookup, key) ==
    ~lookup.fails /\ key \in DOMAIN lookup.info /\ lookup.info[key] > 0

RECURSIVE PeerMultiples(_, _)
PeerMultiples(lookups, key) ==
    IF lookups = <<>> THEN <<>>
    ELSE (IF Usable(Head(lookups), key)
          THEN <<ToRat(Head(lookups).info[key])>> ELSE <<>>)
         \o PeerMultiples(Tail(lookups), key)

\* the multiple applied by pe_valuation, pbv_valuation, ev_ebitda_valuation
AverageMultiple(fd, lookups, key, default) ==
    IF Len(lookups) > 0 /\ Len(PeerMultiples(lookups, key)) > 0
    THEN Mean(PeerMultiples(lookups, key))
    ELSE ToRat(Get(fd.info, key, default))

DefaultPE == 15

DefaultPBV == 2

DefaultEvEbitda == 10

(***************************************************************************)
(* The four single-company methods.  A result is NoneResult (the method    *)
(* returned None) or a record with ok = TRUE and the entries of the dict.  *)
(***************************************************************************)
NoneResult == [ok |-> FALSE]

DefaultParams ==
    [growth_rate |-> Rat(5, 100), discount_rate |-> Rat(10, 100),
     terminal_growth_rate |-> Rat(2, 100), years |-> 5]

ProjectedCashFlows(fcf, p) ==
    [i \in 1..p.years |-> RMul(fcf, RPow(RAdd(ToRat(1), p.growth_rate), i))]

\* mutant: the rates of the denominator are swapped
TerminalValueSwapped(proj, p) ==
    RDiv(RMul(proj[Len(proj)], RAdd(ToRat(1), p.terminal_growth_rate)),
         RSub(p.terminal_growth_rate, p.discount_rate))

TerminalValue(proj, p) ==
    RDiv(RMul(proj[Len(proj)], RAdd(ToRat(1), p.terminal_growth_rate)),
         RSub(p.discount_rate, p.terminal_growth_rate))

PresentValues(proj, p) ==
    [i \in 1..Len(proj) |->
        RDiv(proj[i], RPow(RAdd(ToRat(1), p.discount_rate), i))]

EnterpriseValue(fd, p) ==
    LET proj == ProjectedCashFlows(FreeCashFlow(fd), p)
        pvt == RDiv(TerminalValue(proj, p),
                    RPow(RAdd(ToRat(1), p.discount_rate), p.years))
    IN  RAdd(RSum(PresentValues(proj, p)), pvt)

\* an exception reaches the handler of dcf_valuation
DcfRaises(fd, p, np) ==
    \/ FreeCashFlowRaises(fd)
    \/ p.years < 1
    \/ ~np /\ \/ p.discount_rate = p.terminal_growth_rate
              \/ IsZero(RAdd(ToRat(1), p.discount_rate))
    \/ SharesRaise(fd, np)

dcf_valuation(fd, p, np) ==
    IF DcfRaises(fd, p, np) THEN NoneResult
    ELSE LET proj == ProjectedCashFlows(FreeCashFlow(fd), p)
             enterprise_value == EnterpriseValue(fd, p)
             equity_value == EquityValue(fd, enterprise_value)
         IN  [ok |-> TRUE,
              enterprise_value |-> enterprise_value,
              equity_value |-> equity_value,
              dcf_value_per_share |-> PerShare(fd, equity_value),
              projected_cash_flows |-> proj,
              present_values |-> PresentValues(proj, p),
              terminal_value |-> TerminalValue(proj, p)]

pe_valuation(fd, lookups, np) ==
    IF EpsRaises(fd, np) THEN NoneResult
    ELSE LET average_pe ==
                 AverageMultiple(fd, lookups, "trailingPE", DefaultPE)
         IN  [ok |-> TRUE, eps |-> Eps(fd), average_pe |-> average_pe,
              pe_value_per_share |-> RMul(Eps(fd), average_pe)]

pbv_valuation(fd, lookups, np) ==
    IF BvpsRaises(fd, np) THEN NoneResult
    ELSE LET average_pbv ==
                 AverageMultiple(fd, lookups, "priceToBook", DefaultPBV)
         IN  [ok |-> TRUE, bvps |-> Bvps(fd), average_pbv |-> average_pbv,
              pbv_value_per_share |-> RMul(Bvps(fd), average_pbv)]

ev_ebitda_valuation(fd, lookups, np) ==
    IF EbitdaRaises(fd) \/ SharesRaise(fd, np) THEN NoneResult
    ELSE LET average_ev_ebitda ==
                 AverageMultiple(fd, lookups, "enterpriseToEbitda",
                                 DefaultEvEbitda)
             enterprise_value == RMul(Ebitda(fd), average_ev_ebitda)
         IN  [ok |-> TRUE, ebitda |-> Ebitda(fd),
              average_ev_ebitda |-> average_ev_ebitda,
              enterprise_value |-> enterprise_value,
              equity_value |-> EquityValue(fd, enterprise_value),
              ev_ebitda_value_per_share |->
                  PerShare(fd, EquityValue(fd, enterprise_value))]

(***************************************************************************)
(* Inputs: the datasets and arguments the methods are applied to.          *)
(***************************************************************************)
\* a frame or dict with at most the one key, valued in S
Opt(key, S) == {Empty} \cup {key :> v : v \in S}

\* every frame over the given <<key, values>> choices, each key optional
RECURSIVE Frames(_)
Frames(cs) ==
    IF cs = <<>> THEN {Empty}
    ELSE {a @@ b : a \in Opt(Head(cs)[1], Head(cs)[2]), b \in Frames(Tail(cs))}

ShareCounts == <<"sharesOutstanding", {0, 2}>>

DcfDatasets ==
    {Dataset(cf, Empty, bs, info, Empty) :
        cf \in Frames(<< <<"Operating Cash Flow", {2}>>,
                         <<"Capital Expenditure", {-1, -3}>> >>),
        bs \in Frames(<< <<"Cash And Cash Equivalents", {3}>>,
                         <<"Total Debt", {1, 40}>>,
                         <<"Cash And Short Term Investments", {4}>>,
                         <<"Long Term Debt", {5}>> >>),
        info \in Frames(<<ShareCounts>>)}

PeDatasets ==
    {Dataset(Empty, inc, Empty, info, Empty) :
        inc \in Frames(<< <<"Net Income", {6}>> >>),
        info \in Frames(<< <<"trailingEPS", {0, 5}>>, ShareCounts,
                           <<"trailingPE", {3}>> >>)}

PbvDatasets ==
    {Dataset(Empty, Empty, bs, info, Empty) :
        bs \in Frames(<< <<"Total Stockholder Equity", {6}>> >>),
        info \in Frames(<< <<"bookValue", {0, 5}>>, ShareCounts,
                           <<"priceToBook", {3}>> >>)}

EvDatasets ==
    {Dataset(cf, inc, bs, info, Empty) :
        cf \in Frames(<< <<"Depreciation", {2}>> >>),
        inc \in Frames(<< <<"EBIT", {4}>>,
                          <<"Depreciation And Amortization", {1}>>,
                          <<"Income Before Tax", {3}>>,
                          <<"Interest Expense", {-2}>> >>),
        bs \in Frames(<< <<"Cash And Cash Equivalents", {3}>>,
                         <<"Total Debt", {1}>> >>),
        info \in Frames(<<ShareCounts, <<"enterpriseToEbitda", {3}>> >>)}

MethodDatasets == DcfDatasets \cup PeDatasets \cup PbvDatasets \cup EvDatasets

Rates == {Rat(2, 100), Rat(5, 100), Rat(10, 100)}

DcfParams ==
    {DefaultParams} \cup
    [growth_rate : {ToRat(0), Rat(5, 100)}, discount_rate : Rates,
     terminal_growth_rate : Rates, years : 0..MaxYears]

\* what one peer lookup can give for the multiple under `key`
LookupOutcomes(key) == {FailedLookup} \cup {Found(i) : i \in Opt(key, {-2, 2, 4})}

\* the lookups of a peer list of at most n tickers
LookupSeqs(key, n) ==
    UNION {[1..k -> LookupOutcomes(key)] : k \in 0..n}

(***************************************************************************)
(* SpecMethods: each method applied, as a function, to a dataset.          *)
(***************************************************************************)
NoCall ==
    [method |-> "none", params |-> DefaultParams, lookups |-> <<>>,
     result |-> NoneResult]

InitMethods ==
    /\ numpy_scalars \in BOOLEAN
    /\ pc = "idle"
    /\ financial_data \in MethodDatasets
    /\ target_companies = <<>>
    /\ call = NoCall
    /\ current_price = ToRat(0)
    /\ valuations = Empty
    /\ succeeded = {}
    /\ started = {}
    /\ fetches = <<>>
    /\ comparable_data = <<>>
    /\ mm_result = NoneResult
    /\ diff = Empty
    /\ status = Empty
    /\ colors = Empty

CallRecord(method, p, lookups, result) ==
    [method |-> method, params |-> p, lookups |-> lookups, result |-> result]

CallDcf ==
    /\ pc = "idle"
    /\ \E p \in DcfParams :
          call' = CallRecord("dcf", p, <<>>,
                             dcf_valuation(financial_data, p, numpy_scalars))
    /\ pc' = "returned"
    /\ UNCHANGED <<numpy_scalars, financial_data, target_companies,
                   current_price, valuations, succeeded, started, fetches,
                   comparable_data, mm_result, diff, status, colors>>

CallPe ==
    /\ pc = "idle"
    /\ \E l \in LookupSeqs("trailingPE", MaxPeers) :
          call' = CallRecord("pe", DefaultParams, l,
                             pe_valuation(financial_data, l, numpy_scalars))
    /\ pc' = "returned"
    /\ UNCHANGED <<numpy_scalars, financial_data, target_companies,
                   current_price, valuations, succeeded, started, fetches,
                   comparable_data, mm_result, diff, status, colors>>

CallPbv ==
    /\ pc = "idle"
    /\ \E l \in LookupSeqs("priceToBook", MaxPeers) :
          call' = CallRecord("pbv", DefaultParams, l,
                             pbv_valuation(financial_data, l, numpy_scalars))
    /\ pc' = "returned"
    /\ UNCHANGED <<numpy_scalars, financial_data, target_companies,
                   current_price, valuations, succeeded, started, fetches,
                   comparable_data, mm_result, diff, status, colors>>

CallEvEbitda ==
    /\ pc = "idle"
    /\ \E l \in LookupSeqs("enterpriseToEbitda", MaxPeers) :
          call' = CallRecord("ev_ebitda", DefaultParams, l,
                             ev_ebitda_valuation(financial_data, l,
                                                 numpy_scalars))
    /\ pc' = "returned"
    /\ UNCHANGED <<numpy_scalars, financial_data, target_companies,
                   current_price, valuations, succeeded, started, fetches,
                   comparable_data, mm_result, diff, status, colors>>

NextMethods == CallDcf \/ CallPe \/ CallPbv \/ CallEvEbitda

SpecMethods == InitMethods /\ [][NextMethods]_vars

(***************************************************************************)
(* market_multiples_valuation.  `td` is the subject's dataset as fetched   *)
(* again by the method (NoneData when that fetch failed); `comparable`     *)
(* holds, per peer ticker, the result of get_financial_data.               *)
(***************************************************************************)
Metrics == <<"P/E", "P/BV", "EV/EBITDA", "EV/Sales">>

InfoKey(m) ==
    CASE m = "P/E" -> "trailingPE"
      [] m = "P/BV" -> "priceToBook"
      [] m = "EV/EBITDA" -> "enterpriseToEbitda"
      [] m = "EV/Sales" -> "enterpriseToRevenue"

\* the positive values of one multiple over the peers whose fetch succeeded
RECURSIVE MetricValues(_, _)
MetricValues(comparable, key) ==
    IF comparable = <<>> THEN <<>>
    ELSE (IF Head(comparable).ok /\ key \in DOMAIN Head(comparable).info
             /\ Head(comparable).info[key] > 0
          THEN <<ToRat(Head(comparable).info[key])>> ELSE <<>>)
         \o MetricValues(Tail(comparable), key)

\* mutant: a multiple no peer supplied gets the default of pe_valuation
AverageMetricsDefaulting(comparable) ==
    [m \in {Metrics[i] : i \in DOMAIN Metrics} |->
        IF MetricValues(comparable, InfoKey(m)) # <<>>
        THEN Mean(MetricValues(comparable, InfoKey(m)))
        ELSE ToRat(15)]

\* a multiple is averaged only if some peer supplied it
AverageMetrics(comparable) ==
    [m \in {x \in {Metrics[i] : i \in DOMAIN Metrics} :
                MetricValues(comparable, InfoKey(x)) # <<>>}
        |-> Mean(MetricValues(comparable, InfoKey(m)))]

\* the try block of one implied valuation raises (and is passed over)
ImpliedRaises(td, m, np) ==
    \/ ~td.ok
    \/ m = "P/E" /\ EpsRaises(td, np)
    \/ m = "P/BV" /\ BvpsRaises(td, np)
    \/ m = "EV/EBITDA" /\ (EbitdaRaises(td) \/ SharesRaise(td, np))
    \/ m = "EV/Sales" /\ \/ ~Has(td.income_stmt, "Total Revenue")
                         \/ SharesRaise(td, np)

ImpliedValue(td, m, multiple) ==
    CASE m = "P/E" -> RMul(Eps(td), multiple)
      [] m = "P/BV" -> RMul(Bvps(td), multiple)
      [] m = "EV/EBITDA" ->
            PerShare(td, EquityValue(td, RMul(Ebitda(td), multiple)))
      [] m = "EV/Sales" ->
            PerShare(td, EquityValue(td,
                RMul(Latest(td.income_stmt, "Total Revenue"), multiple)))

ImpliedValuations(td, comparable, np) ==
    LET average_metrics == AverageMetrics(comparable)
    IN  [m \in {x \in DOMAIN average_metrics : ~ImpliedRaises(td, x, np)}
            |-> ImpliedValue(td, m, average_metrics[m])]

\* the values of dict f in the order of `keys`
RECURSIVE ValuesOf(_, _)
ValuesOf(f, keys) ==
    IF keys = <<>> THEN <<>>
    ELSE (IF Head(keys) \in DOMAIN f THEN <<f[Head(keys)]>> ELSE <<>>)
         \o ValuesOf(f, Tail(keys))

\* average_valuation: <<>> is None, <<v>> is the number v
AverageValuation(vals) ==
    IF DOMAIN vals # {} THEN <<Mean(ValuesOf(vals, Metrics))>> ELSE <<>>

market_multiples_valuation(td, comparable, np) ==
    LET vals == ImpliedValuations(td, comparable, np)
    IN  [ok |-> TRUE,
         average_metrics |-> AverageMetrics(comparable),
         valuations |-> vals,
         average_valuation |-> AverageValuation(vals)]

(***************************************************************************)
(* perform_valuation, one action per step.                                 *)
(***************************************************************************)
Methods == <<"DCF", "P/E", "P/BV", "EV/EBITDA", "Market Multiples">>

Priced == "currentPrice" :> 10

SubjectDatasets ==
    {Dataset(cf, inc, bs, info, "Close" :> 9) :
        cf \in {Empty, "Operating Cash Flow" :> 2},
        inc \in {Empty, "Net Income" :> 0,
                 "Net Income" :> 6 @@ "Income Before Tax" :> 3
                    @@ "Total Revenue" :> 4},
        bs \in {Empty, "Total Stockholder Equity" :> 6},
        info \in {Empty, Priced @@ "sharesOutstanding" :> 0,
                  Priced @@ "sharesOutstanding" :> 2,
                  Priced @@ "sharesOutstanding" :> 2 @@ "trailingEPS" :> 5
                     @@ "trailingPE" :> 3}}
    \cup {Dataset("Operating Cash Flow" :> 2, Empty, Empty, Empty, Empty),
          Dataset("Operating Cash Flow" :> 2, Empty, Empty, Empty,
                  "Close" :> 0)}

PeerProfiles ==
    {Empty,
     "trailingPE" :> 2 @@ "priceToBook" :> 2 @@ "enterpriseToEbitda" :> 2
        @@ "enterpriseToRevenue" :> 2,
     "trailingPE" :> 4 @@ "priceToBook" :> -2}

\* get_financial_data: the dataset, or None when anything raised
FetchResults == SubjectDatasets \cup {NoneData}

\* what a second fetch of the same ticker may give
Refetch(fd) ==
    {NoneData, fd, [fd EXCEPT !.income_stmt = Empty, !.balance_sheet = Empty]}

\* mutant: the failed fetch is not tested
AfterFetchUnchecked(d) == "price"

\* `if not financial_data: return None`
AfterFetch(d) == IF d.ok THEN "price" ELSE "return_none"

CurrentPriceRaises(fd) ==
    Falsy(fd.info, "currentPrice") /\ ~Has(fd.hist, "Close")

CurrentPrice(fd) ==
    IF ~Falsy(fd.info, "currentPrice") THEN ToRat(fd.info["currentPrice"])
    ELSE Latest(fd.hist, "Close")

\* `if result: valuations[key] = result[...]`
WithEntry(vals, key, present, value) ==
    IF present THEN vals @@ (key :> value) ELSE vals

\* `if mm_result and mm_result['average_valuation']`
MarketEntryKept(r) ==
    r.ok /\ r.average_valuation # <<>> /\ Truthy(r.average_valuation[1])

\* the lookups yf.Ticker(t).info of the peers, those in `failed` raising
Lookups(failed) ==
    [i \in DOMAIN target_companies |->
        IF i \in failed THEN FailedLookup ELSE Found(target_companies[i])]

PeerData(failed) ==
    [i \in DOMAIN target_companies |->
        IF i \in failed THEN NoneData
        ELSE Dataset(Empty, Empty, Empty, target_companies[i], Empty)]

Init ==
    /\ numpy_scalars \in BOOLEAN
    /\ pc = "fetch"
    /\ financial_data = NoneData
    /\ target_companies \in UNION {[1..k -> PeerProfiles] : k \in 0..MaxTargets}
    /\ call = NoCall
    /\ current_price = ToRat(0)
    /\ valuations = Empty
    /\ succeeded = {}
    /\ started = {}
    /\ fetches = <<>>
    /\ comparable_data = <<>>
    /\ mm_result = NoneResult
    /\ diff = Empty
    /\ status = Empty
    /\ colors = Empty

FetchSubject ==
    /\ pc = "fetch"
    /\ \E d \in FetchResults :
          /\ financial_data' = d
          /\ fetches' = Append(fetches, d)
          /\ pc' = AfterFetch(d)
    /\ UNCHANGED <<numpy_scalars, target_companies, call, current_price,
                   valuations, succeeded, started, comparable_data, mm_result,
                   diff, status, colors>>

FindCurrentPrice ==
    /\ pc = "price"
    /\ IF CurrentPriceRaises(financial_data)
       THEN pc' = "raise" /\ UNCHANGED current_price
       ELSE pc' = "dcf" /\ current_price' = CurrentPrice(financial_data)
    /\ UNCHANGED <<numpy_scalars, financial_data, target_companies, call,
                   valuations, succeeded, started, fetches, comparable_data,
                   mm_result, diff, status, colors>>

RunDcf ==
    /\ pc = "dcf"
    /\ LET r == dcf_valuation(financial_data, DefaultParams, numpy_scalars)
       IN  /\ valuations' = WithEntry(valuations, "DCF", r.ok,
                                      IF r.ok THEN r.dcf_value_per_share
                                      ELSE NaN)
           /\ succeeded' = IF r.ok THEN succeeded \cup {"DCF"} ELSE succeeded
    /\ started' = started \cup {"DCF"}
    /\ pc' = "pe"
    /\ UNCHANGED <<numpy_scalars, financial_data, target_companies, call,
                   current_price, fetches, comparable_data, mm_result,
                   diff, status, colors>>

RunPe ==
    /\ pc = "pe"
    /\ \E failed \in SUBSET DOMAIN target_companies :
          LET r == pe_valuation(financial_data, Lookups(failed), numpy_scalars)
          IN  /\ valuations' = WithEntry(valuations, "P/E", r.ok,
                                         IF r.ok THEN r.pe_value_per_share
                                         ELSE NaN)
              /\ succeeded' = IF r.ok THEN succeeded \cup {"P/E"}
                              ELSE succeeded
    /\ started' = started \cup {"P/E"}
    /\ pc' = "pbv"
    /\ UNCHANGED <<numpy_scalars, financial_data, target_companies, call,
                   current_price, fetches, comparable_data, mm_result,
                   diff, status, colors>>

RunPbv ==
    /\ pc = "pbv"
    /\ \E failed \in SUBSET DOMAIN target_companies :
          LET r == pbv_valuation(financial_data, Lookups(failed),
                                 numpy_scalars)
          IN  /\ valuations' = WithEntry(valuations, "P/BV", r.ok,
                                         IF r.ok THEN r.pbv_value_per_share
                                         ELSE NaN)
              /\ succeeded' = IF r.ok THEN succeeded \cup {"P/BV"}
                              ELSE succeeded
    /\ started' = started \cup {"P/BV"}
    /\ pc' = "ev_ebitda"
    /\ UNCHANGED <<numpy_scalars, financial_data, target_companies, call,
                   current_price, fetches, comparable_data, mm_result,
                   diff, status, colors>>

RunEvEbitda ==
    /\ pc = "ev_ebitda"
    /\ \E failed \in SUBSET DOMAIN target_companies :
          LET r == ev_ebitda_valuation(financial_data, Lookups(failed),
                                       numpy_scalars)
          IN  /\ valuations' = WithEntry(valuations, "EV/EBITDA", r.ok,
                                         IF r.ok
                                         THEN r.ev_ebitda_value_per_share
                                         ELSE NaN)
              /\ succeeded' = IF r.ok THEN succeeded \cup {"EV/EBITDA"}
                              ELSE succeeded
    /\ started' = started \cup {"EV/EBITDA"}
    /\ pc' = "mm"
    /\ UNCHANGED <<numpy_scalars, financial_data, target_companies, call,
                   current_price, fetches, comparable_data, mm_result,
                   diff, status, colors>>

\* `if target_companies:` holds: the method fetches the subject again, then
\* every peer
RunMarketMultiples ==
    /\ pc = "mm"
    /\ target_companies # <<>>
    /\ \E td \in Refetch(financial_data),
          failed \in SUBSET DOMAIN target_companies :
          LET r == market_multiples_valuation(td, PeerData(failed),
                                              numpy_scalars)
          IN  /\ fetches' = Append(fetches, td)
              /\ comparable_data' = PeerData(failed)
              /\ mm_result' = r
              /\ valuations' =
                    WithEntry(valuations, "Market Multiples",
                              MarketEntryKept(r),
                              IF r.average_valuation # <<>>
                              THEN r.average_valuation[1] ELSE NaN)
              /\ succeeded' = IF r.average_valuation # <<>>
                              THEN succeeded \cup {"Market Multiples"}
                              ELSE succeeded
    /\ started' = started \cup {"Market Multiples"}
    /\ pc' = "average"
    /\ UNCHANGED <<numpy_scalars, financial_data, target_companies, call,
                   current_price, diff, status, colors>>

\* no peers: the comparable-companies method is not invoked
SkipMarketMultiples ==
    /\ pc = "mm"
    /\ target_companies = <<>>
    /\ pc' = "average"
    /\ UNCHANGED <<numpy_scalars, financial_data, target_companies, call,
                   current_price, valuations, succeeded, started, fetches,
                   comparable_data, mm_result, diff, status, colors>>

\* `if valuation_methods: valuations['Average'] = sum / len`, then return
ComputeAverage ==
    /\ pc = "average"
    /\ valuations' =
          WithEntry(valuations, "Average", DOMAIN valuations # {},
                    IF DOMAIN valuations # {}
                    THEN Mean(ValuesOf(valuations, Methods)) ELSE NaN)
    /\ pc' = "return"
    /\ UNCHANGED <<numpy_scalars, financial_data, target_companies, call,
                   current_price, succeeded, started, fetches,
                   comparable_data, mm_result, diff, status, colors>>

\* diff = ((value / valuations['current_price']) - 1) * 100, held here in
\* units of 100 per cent (1/3 stands for 33.33 %): the final scaling by the
\* positive constant keeps zero, sign, inf and nan.  The price is a float of
\* the profile or a numpy scalar of the history, so a zero price gives inf
\* or nan and does not raise
Diff(value, price) == RSub(RDiv(value, price), ToRat(1))

\* mutant: a zero difference counts as undervalued
StatusNonNegative(d) ==
    IF RGt(d, ToRat(0)) \/ IsZero(d) THEN "UNDERVALUED" ELSE "OVERVALUED"

\* status = "UNDERVALUED" if diff > 0 else "OVERVALUED"
Status(d) == IF RGt(d, ToRat(0)) THEN "UNDERVALUED" ELSE "OVERVALUED"

\* 'green' if v > valuations['current_price'] else 'red'
Color(v, price) == IF RGt(v, price) THEN "green" ELSE "red"

\* main: `if valuations: display_valuation_results(valuations)`; the entries
\* shown are every key but ticker, current_price and company_name
display_valuation_results ==
    /\ pc = "return"
    /\ diff' = [m \in DOMAIN valuations |->
                   Diff(valuations[m], current_price)]
    /\ status' = [m \in DOMAIN valuations |->
                     Status(Diff(valuations[m], current_price))]
    /\ colors' = [m \in DOMAIN valuations |->
                     Color(valuations[m], current_price)]
    /\ pc' = "displayed"
    /\ UNCHANGED <<numpy_scalars, financial_data, target_companies, call,
                   current_price, valuations, succeeded, started, fetches,
                   comparable_data, mm_result>>

Next ==
    \/ FetchSubject
    \/ FindCurrentPrice
    \/ RunDcf
    \/ RunPe
    \/ RunPbv
    \/ RunEvEbitda
    \/ RunMarketMultiples
    \/ SkipMarketMultiples
    \/ ComputeAverage
    \/ display_valuation_results

Spec == Init /\ [][Next]_vars

(***************************************************************************)
(* Claims about the single methods, checked under SpecMethods.             *)
(***************************************************************************)
Zero == ToRat(0)

IsDcfCall == pc = "returned" /\ call.method = "dcf"

IsPeCall == pc = "returned" /\ call.method = "pe"

IsPbvCall == pc = "returned" /\ call.method = "pbv"

IsEvCall == pc = "returned" /\ call.method = "ev_ebitda"

SharesMissingOrZero ==
    \/ "sharesOutstanding" \notin DOMAIN financial_data.info
    \/ financial_data.info["sharesOutstanding"] = 0

\* C4: a dcf_valuation call with discount_rate <= terminal_growth_rate
\* returns None, whatever the dataset.
C4_RateConstraintUnavailable ==
    (IsDcfCall
     /\ ~RGt(call.params.discount_rate, call.params.terminal_growth_rate))
        => ~call.result.ok

FcfPositive ==
    /\ ~FreeCashFlowRaises(financial_data)
    /\ RGt(FreeCashFlow(financial_data), Zero)

\* C5 as stated: with free cash flow > 0 and discount_rate >
\* terminal_growth_rate, dcf_valuation succeeds and its per-share value is
\* finite and strictly positive, whatever cash, debt and shares are.
C5_DcfPositive ==
    (IsDcfCall /\ FcfPositive /\ call.params.years >= 1
     /\ RGt(call.params.discount_rate, call.params.terminal_growth_rate))
        => /\ call.result.ok
           /\ IsFinite(call.result.dcf_value_per_share)
           /\ RGt(call.result.dcf_value_per_share, Zero)

\* C5 amended: with free cash flow > 0, discount_rate > terminal_growth_rate,
\* rates >= 0 and years >= 1, the enterprise value is finite and strictly
\* positive; the method succeeds whenever the share count is not 0; and for a
\* positive share count (an absent one counts as 1) the per-share value is
\* finite and is strictly positive exactly when enterprise value + cash - debt
\* is.
C5_DcfPositiveEnterpriseValue ==
    (IsDcfCall /\ FcfPositive /\ call.params.years >= 1
     /\ RGt(call.params.discount_rate, call.params.terminal_growth_rate))
        => /\ SharesOutstanding(financial_data) # 0 => call.result.ok
           /\ call.result.ok =>
                /\ IsFinite(call.result.enterprise_value)
                /\ RGt(call.result.enterprise_value, Zero)
                /\ SharesOutstanding(financial_data) > 0 =>
                     /\ IsFinite(call.result.dcf_value_per_share)
                     /\ RGt(call.result.dcf_value_per_share, Zero)
                          <=> RGt(call.result.equity_value, Zero)

\* a DCF call of the amended C5 whose debt exceeds enterprise value + cash:
\* the method succeeds with a per-share value that is not positive
C5_Witness ==
    /\ IsDcfCall /\ FcfPositive /\ call.params.years >= 1
    /\ RGt(call.params.discount_rate, call.params.terminal_growth_rate)
    /\ SharesOutstanding(financial_data) > 1
    /\ call.result.ok
    /\ RGt(call.result.enterprise_value, Zero)
    /\ ~RGt(call.result.dcf_value_per_share, Zero)

\* C6: in dcf_valuation, ev_ebitda_valuation and the net-income / equity
\* fallbacks of pe_valuation and pbv_valuation, a share count that is zero or
\* absent makes the method return None.
C6_NoValueWithoutShares ==
    (/\ SharesMissingOrZero
     /\ \/ IsDcfCall
        \/ IsEvCall
        \/ IsPeCall /\ Falsy(financial_data.info, "trailingEPS")
        \/ IsPbvCall /\ Falsy(financial_data.info, "bookValue"))
        => ~call.result.ok

IsRatioCall == IsPeCall \/ IsPbvCall \/ IsEvCall

C7_Key ==
    IF call.method = "pe" THEN "trailingPE"
    ELSE IF call.method = "pbv" THEN "priceToBook" ELSE "enterpriseToEbitda"

C7_Default ==
    IF call.method = "pe" THEN 15 ELSE IF call.method = "pbv" THEN 2 ELSE 10

C7_Applied ==
    IF call.method = "pe" THEN call.result.average_pe
    ELSE IF call.method = "pbv" THEN call.result.average_pbv
    ELSE call.result.average_ev_ebitda

\* the peers whose lookup succeeded with a positive multiple
C7_Positive ==
    {i \in DOMAIN call.lookups :
        /\ ~call.lookups[i].fails
        /\ C7_Key \in DOMAIN call.lookups[i].info
        /\ call.lookups[i].info[C7_Key] > 0}

RECURSIVE C7_Total(_)
C7_Total(S) ==
    IF S = {} THEN 0
    ELSE LET i == CHOOSE j \in S : TRUE
         IN  call.lookups[i].info[C7_Key] + C7_Total(S \ {i})

\* the subject's own fundamental resolves without any division
C7_FundamentalPresent ==
    \/ IsPeCall /\ ~Falsy(financial_data.info, "trailingEPS")
    \/ IsPbvCall /\ ~Falsy(financial_data.info, "bookValue")
    \/ IsEvCall /\ Has(financial_data.income_stmt, "Income Before Tax")
                /\ SharesOutstanding(financial_data) # 0

\* C7: pe_valuation, pbv_valuation and ev_ebitda_valuation apply (1) the mean
\* of exactly the positive multiples of the peers whose lookup succeeded, if
\* there is one; (2) otherwise the subject's own profile multiple if present;
\* (3) otherwise 15, 2 or 10.  A failed or unusable peer never aborts the
\* method.  No peers, trailing EPS 5 and no trailing P/E give 75 per share.
C7_MultipleChain ==
    /\ (IsRatioCall /\ call.result.ok) =>
          IF C7_Positive # {}
          THEN /\ IsFinite(C7_Applied)
               /\ C7_Applied.n * Cardinality(C7_Positive)
                     = C7_Total(C7_Positive) * C7_Applied.d
          ELSE IF C7_Key \in DOMAIN financial_data.info
               THEN C7_Applied = ToRat(financial_data.info[C7_Key])
               ELSE C7_Applied = ToRat(C7_Default)
    /\ (IsRatioCall /\ C7_FundamentalPresent) => call.result.ok
    /\ (IsPeCall /\ call.lookups = <<>>
        /\ "trailingEPS" \in DOMAIN financial_data.info
        /\ financial_data.info["trailingEPS"] = 5
        /\ "trailingPE" \notin DOMAIN financial_data.info)
          => call.result.ok /\ call.result.pe_value_per_share = ToRat(75)

\* a P/E call with two peers, one whose lookup failed and one with a positive
\* multiple, on a subject that has its own trailing P/E
C7_Witness ==
    /\ IsPeCall /\ call.result.ok
    /\ Len(call.lookups) = 2
    /\ Cardinality(C7_Positive) = 1
    /\ \E i \in DOMAIN call.lookups : call.lookups[i].fails
    /\ "trailingPE" \in DOMAIN financial_data.info
    /\ call.result.average_pe # ToRat(financial_data.info["trailingPE"])

C9_Cash ==
    LET bs == financial_data.balance_sheet
    IN  IF Has(bs, "Cash And Cash Equivalents")
        THEN bs["Cash And Cash Equivalents"]
        ELSE IF Has(bs, "Cash And Short Term Investments")
        THEN bs["Cash And Short Term Investments"] ELSE 0

C9_Debt ==
    LET bs == financial_data.balance_sheet
    IN  IF Has(bs, "Total Debt") THEN bs["Total Debt"]
        ELSE IF Has(bs, "Long Term Debt") THEN bs["Long Term Debt"] ELSE 0

\* C9: cash and debt are resolved each through its own chain (Cash And Cash
\* Equivalents, else Cash And Short Term Investments, else 0; Total Debt,
\* else Long Term Debt, else 0), so the equity value of dcf_valuation and
\* ev_ebitda_valuation is enterprise value + that cash - that debt.
C9_IndependentChains ==
    ((IsDcfCall \/ IsEvCall) /\ call.result.ok
     /\ IsFinite(call.result.enterprise_value))
        => call.result.equity_value
              = RAdd(call.result.enterprise_value, ToRat(C9_Cash - C9_Debt))

\* the share count does not make a division fail
C10_SharesUsable == SharesOutstanding(financial_data) # 0

C10_OcfOnly ==
    /\ IsDcfCall
    /\ Has(financial_data.cash_flow, "Operating Cash Flow")
    /\ ~Has(financial_data.cash_flow, "Capital Expenditure")

C10_CashFlowDepreciation ==
    /\ IsEvCall
    /\ Has(financial_data.income_stmt, "EBIT")
    /\ ~Has(financial_data.income_stmt, "Depreciation And Amortization")
    /\ Has(financial_data.cash_flow, "Depreciation")

C10_IncomeBeforeTax ==
    /\ IsEvCall
    /\ ~Has(financial_data.income_stmt, "EBIT")
    /\ Has(financial_data.income_stmt, "Income Before Tax")

C10_NetIncome ==
    /\ IsPeCall
    /\ "trailingEPS" \notin DOMAIN financial_data.info
    /\ Has(financial_data.income_stmt, "Net Income")

C10_TotalEquity ==
    /\ IsPbvCall
    /\ "bookValue" \notin DOMAIN financial_data.info
    /\ Has(financial_data.balance_sheet, "Total Stockholder Equity")

\* the value each fallback is to resolve to, when the call succeeded
C10_FallbackValue ==
    /\ C10_OcfOnly =>
          call.result.projected_cash_flows[1]
             = RMul(ToRat(financial_data.cash_flow["Operating Cash Flow"]),
                    RAdd(ToRat(1), call.params.growth_rate))
    /\ C10_CashFlowDepreciation =>
          call.result.ebitda
             = ToRat(financial_data.income_stmt["EBIT"]
                     + financial_data.cash_flow["Depreciation"])
    /\ C10_IncomeBeforeTax =>
          call.result.ebitda
             = ToRat(financial_data.income_stmt["Income Before Tax"]
                     + IF Has(financial_data.income_stmt, "Interest Expense")
                       THEN Abs(financial_data.income_stmt["Interest Expense"])
                       ELSE 0)
    /\ C10_NetIncome /\ C10_SharesUsable =>
          RMul(call.result.eps, ToRat(SharesOutstanding(financial_data)))
             = ToRat(financial_data.income_stmt["Net Income"])
    /\ C10_TotalEquity /\ C10_SharesUsable =>
          RMul(call.result.bvps, ToRat(SharesOutstanding(financial_data)))
             = ToRat(financial_data.balance_sheet["Total Stockholder Equity"])

C10_DcfArgumentsValid ==
    /\ call.params.years >= 1
    /\ call.params.discount_rate # call.params.terminal_growth_rate

\* C10 as stated: when the primary source of free cash flow, EBITDA, EPS or
\* book value per share is missing and the fallback source is present, the
\* method does not return None and resolves to the fallback value.
C10_FallbackNeverUnavailable ==
    (\/ C10_OcfOnly /\ C10_DcfArgumentsValid
     \/ C10_CashFlowDepreciation
     \/ C10_IncomeBeforeTax
     \/ C10_NetIncome
     \/ C10_TotalEquity)
        => call.result.ok /\ C10_FallbackValue

\* C10 amended: the same, provided the share count is not 0 (an absent one
\* counts as 1) and, for dcf_valuation, years >= 1 and discount_rate differs
\* from terminal_growth_rate.
C10_FallbackResolvesWithShares ==
    (/\ C10_SharesUsable
     /\ \/ C10_OcfOnly /\ C10_DcfArgumentsValid
        \/ C10_CashFlowDepreciation
        \/ C10_IncomeBeforeTax
        \/ C10_NetIncome
        \/ C10_TotalEquity)
        => call.result.ok /\ C10_FallbackValue

\* an EV/EBITDA call that found EBIT, no income-statement D&A and the
\* cash-flow Depreciation, and returned a value
C10_Witness ==
    /\ C10_CashFlowDepreciation /\ C10_SharesUsable
    /\ call.result.ok
    /\ call.result.ebitda = ToRat(6)

(***************************************************************************)
(* Claims about perform_valuation, checked under Spec.                     *)
(***************************************************************************)
MethodSet == {Methods[i] : i \in DOMAIN Methods}

ReportedMethods == DOMAIN valuations \cap MethodSet

\* the per-share value a successful method produced in this run
ProducedValue(m) ==
    IF m = "Market Multiples" THEN mm_result.average_valuation[1]
    ELSE valuations[m]

RECURSIVE ProducedTotal(_)
ProducedTotal(S) ==
    IF S = {} THEN Zero
    ELSE LET m == CHOOSE x \in S : TRUE
         IN  RAdd(ProducedValue(m), ProducedTotal(S \ {m}))

\* C1: the 'Average' of the report is the arithmetic mean of the per-share
\* values of exactly the methods that succeeded in this run, and there is no
\* 'Average' entry when no method succeeded.
C1_AverageOfSuccessful ==
    pc = "return" =>
        /\ "Average" \in DOMAIN valuations <=> succeeded # {}
        /\ succeeded # {} =>
              RMul(valuations["Average"], ToRat(Cardinality(succeeded)))
                 = ProducedTotal(succeeded)

\* C2: a method that fails never stops the others and never raises to the
\* caller, and the method entries of the report are exactly the methods that
\* produced a per-share value (a value of 0 included).
C2_ReportIsSuccessful ==
    /\ pc = "raise" => started = {}
    /\ pc = "return" =>
          /\ {"DCF", "P/E", "P/BV", "EV/EBITDA"} \subseteq started
          /\ target_companies # <<>> => "Market Multiples" \in started
          /\ ReportedMethods = succeeded

\* C3: a failed fetch of the subject makes perform_valuation return None
\* with no method invoked, and a method is invoked only after the subject's
\* fetch succeeded.
C3_FetchBeforeMethods ==
    /\ pc = "return_none" =>
          /\ started = {} /\ valuations = Empty
          /\ Len(fetches) = 1 /\ ~fetches[1].ok
    /\ (Len(fetches) >= 1 /\ ~fetches[1].ok) => pc = "return_none"
    /\ pc \notin {"fetch", "return_none"} => financial_data.ok
    /\ started # {} =>
          /\ financial_data.ok
          /\ fetches[1] = financial_data

\* the subject's fetch failed and the call returned None
C3_Witness ==
    /\ pc = "return_none"
    /\ Len(fetches) = 1 /\ ~fetches[1].ok
    /\ started = {}

C8_NoUsablePeer ==
    \A i \in DOMAIN comparable_data :
        comparable_data[i].ok =>
            \A m \in DOMAIN Metrics :
                \/ InfoKey(Metrics[m]) \notin DOMAIN comparable_data[i].info
                \/ comparable_data[i].info[InfoKey(Metrics[m])] <= 0

\* C8: with no peers, or every peer fetch failing, or no fetched peer
\* supplying a positive multiple, the comparable-companies method yields no
\* value: the report has no 'Market Multiples' entry (no default 15, 2 or 10
\* stands in for the missing multiples).
C8_NoPeersNoMarketMultiples ==
    (pc \in {"average", "return"} /\ C8_NoUsablePeer)
        => /\ "Market Multiples" \notin DOMAIN valuations
           /\ "Market Multiples" \notin succeeded
           /\ "Market Multiples" \in started =>
                 /\ mm_result.average_valuation = <<>>
                 /\ DOMAIN mm_result.average_metrics = {}

\* the method ran with every peer fetch failing, on a subject whose P/E
\* method produced a value, and the report has no 'Market Multiples' entry
C8_Witness ==
    /\ pc = "return"
    /\ "Market Multiples" \in started
    /\ \A i \in DOMAIN comparable_data : ~comparable_data[i].ok
    /\ fetches[2] = financial_data
    /\ "P/E" \in DOMAIN valuations
    /\ "Market Multiples" \notin DOMAIN valuations

(***************************************************************************)
(* C11: classification of the report's entries.                            *)
(***************************************************************************)
\* C11: every entry of the displayed report is classified, as UNDERVALUED
\* exactly when its estimate is strictly greater than the current price and
\* as OVERVALUED otherwise; an estimate equal to the price is OVERVALUED
C11_ClassificationByPrice ==
    pc = "displayed" =>
       /\ DOMAIN status = DOMAIN valuations
       /\ \A m \in DOMAIN valuations :
             /\ status[m] \in {"UNDERVALUED", "OVERVALUED"}
             /\ status[m] = "UNDERVALUED"
                   <=> RGt(valuations[m], current_price)
             /\ valuations[m] = current_price => status[m] = "OVERVALUED"
             /\ colors[m] = "green" <=> status[m] = "UNDERVALUED"

\* a displayed report with an estimate above the price, one below it and one
\* exactly equal to it
C11_Witness ==
    /\ pc = "displayed"
    /\ \E m \in DOMAIN valuations :
          valuations[m] = current_price /\ status[m] = "OVERVALUED"
    /\ \E m \in DOMAIN valuations :
          RGt(valuations[m], current_price) /\ status[m] = "UNDERVALUED"
    /\ \E m \in DOMAIN valuations :
          RGt(current_price, valuations[m]) /\ status[m] = "OVERVALUED"

(***************************************************************************)
(* C12: fetches of the subject within one perform_valuation call.          *)
(***************************************************************************)
\* C12: within one perform_valuation call the subject's dataset is fetched
\* exactly once and every method, the comparable-multiples method included,
\* computes from that dataset, so that no later fetch of the subject fails
\* or returns other data
C12_SubjectFetchedOnce ==
    /\ Len(fetches) <= 1
    /\ pc # "fetch" => Len(fetches) = 1
    /\ \A i \in DOMAIN fetches :
          started # {} => fetches[i] = financial_data

====
